---- MODULE Spec2Model ----
(***************************************************************************)
(* A model of py-robinson's style resolution (style.py), box-tree          *)
(* construction and block layout (layout.py), with the parts of css.py     *)
(* and dom.py they call.                                                   *)
(*                                                                         *)
(* Python objects are records carrying a `cls` field (their class).  An    *)
(* object of a class that defines no __eq__ compares by identity, so a     *)
(* css.Value also carries `oid`, the allocation that created it.  Pixel    *)
(* lengths are integers (whole pixels).                                    *)
(*                                                                         *)
(* The functions are exercised one call at a time: `pc` names the function *)
(* that has returned, `arg` holds its arguments, `ret` what it returned,   *)
(* raised, or left in the object it mutates.  _layout_block is also taken   *)
(* step by step, one child at a time, to lay its children out in any order.*)
(***************************************************************************)
EXTENDS Integers, Sequences, FiniteSets, TLC

VARIABLES pc, arg, ret

vars == <<pc, arg, ret>>

-----------------------------------------------------------------------------
(* Bounds of the explored inputs *)

MaxClassAttrLen == 3   \* characters in an element's class attribute
MaxSelClasses   == 2   \* classes in one simple selector
MaxRules        == 2   \* rules in one stylesheet
MaxNodes        == 4   \* nodes in one styled tree
MaxDocNodes     == 3   \* nodes in one document

-----------------------------------------------------------------------------
(* Python basics *)

\* None where a str is expected, and None where an object is expected
None == "None"

NoneObj == [cls |-> "NoneType"]

\* truth value of a str | None
Truthy(s) == s # None /\ s # ""

isinstance(obj, cls) == obj.cls = cls

\* an exception leaving a function
Raise(exc) == [cls |-> exc, raised |-> TRUE]

Raised(r) == "raised" \in DOMAIN r

\* tuple comparison, as sort() orders css.Specificity keys
TupleLess(s, t) ==
    \E i \in 1..Len(s) : s[i] < t[i] /\ \A j \in 1..(i - 1) : s[j] = t[j]

RECURSIVE split(_, _, _)
\* str.split(): the tokens of s between runs of whitespace
split(s, cur, acc) ==
    IF s = <<>>
    THEN IF cur = <<>> THEN acc ELSE Append(acc, cur)
    ELSE IF Head(s) = " "
         THEN split(Tail(s), <<>>, IF cur = <<>> THEN acc ELSE Append(acc, cur))
         ELSE split(Tail(s), Append(cur, Head(s)), acc)

\* dict assignment d[k] = v
DictSet(d, k, v) == [n \in DOMAIN d \cup {k} |-> IF n = k THEN v ELSE d[n]]

EmptyDict == <<>>

-----------------------------------------------------------------------------
(* css.py *)

Px == "Px"

\* css.Value(keyword=k): the length keeps its default (0.0, Px())
KeywordValue(oid, k) ==
    [cls |-> "Value", oid |-> oid, keyword |-> k, length |-> <<0, Px>>]

\* css.Value(length=(n, Px())): the keyword keeps its default ""
LengthValue(oid, n) ==
    [cls |-> "Value", oid |-> oid, keyword |-> "", length |-> <<n, Px>>]

to_px(v) == IF v.length # <<>> THEN v.length[1] ELSE 0

\* Value defines no __eq__: == between two Values is identity.  (The code
\* compares a Value only with the auto object of the running call.)
ValueEq(a, b) == a.oid = b.oid

\* ... and == between a Value and a str is False
ValueEqStr(v, s) == FALSE

SimpleSelector(tag_name, id, class_name) ==
    [cls |-> "SimpleSelector", tag_name |-> tag_name, id |-> id,
     class_name |-> class_name]

Selector(simple_selector) ==
    [cls |-> "Selector", simple_selector |-> simple_selector]

specificity(selector) ==
    LET a == IF Truthy(selector.simple_selector.id) THEN 1 ELSE 0
        b == Len(selector.simple_selector.class_name)
        c == IF Truthy(selector.simple_selector.tag_name) THEN 1 ELSE 0
    IN  <<a, b, c>>

Declaration(name, value) == [cls |-> "Declaration", name |-> name, value |-> value]

Rule(selectors, declarations) ==
    [cls |-> "Rule", selectors |-> selectors, declarations |-> declarations]

Stylesheet(rules) == [cls |-> "Stylesheet", rules |-> rules]

RECURSIVE SortSelectors(_)
\* selectors.sort(key=specificity, reverse=True): stable, most specific first
SortSelectors(selectors) ==
    IF selectors = <<>> THEN <<>>
    ELSE LET rest == SortSelectors(SubSeq(selectors, 1, Len(selectors) - 1))
             s    == selectors[Len(selectors)]
             keep == {i \in 1..Len(rest) :
                        ~TupleLess(specificity(rest[i]), specificity(s))}
             n    == Cardinality(keep)
         IN  SubSeq(rest, 1, n) \o <<s>> \o SubSeq(rest, n + 1, Len(rest))

-----------------------------------------------------------------------------
(* dom.py *)

Element(tag_name, attrs) == [cls |-> "Element", tag_name |-> tag_name, attrs |-> attrs]

Text(text) == [cls |-> "Text", text |-> text]

Node(node_type, children) == [cls |-> "Node", node_type |-> node_type, children |-> children]

ElementId(elem) == IF "id" \in DOMAIN elem.attrs THEN elem.attrs["id"] ELSE None

classes(elem) ==
    IF "class" \in DOMAIN elem.attrs /\ elem.attrs["class"] # <<>>
    THEN LET tokens == split(elem.attrs["class"], <<>>, <<>>)
         IN  {tokens[i] : i \in 1..Len(tokens)}
    ELSE {}

-----------------------------------------------------------------------------
(* style.py: selector matching and the cascade *)

_matches_simple_selector(elem, selector) ==
    IF Truthy(selector.tag_name) /\ elem.tag_name # selector.tag_name THEN FALSE
    ELSE IF Truthy(selector.id) /\ ElementId(elem) # selector.id THEN FALSE
    ELSE IF \E i \in 1..Len(selector.class_name) :
                selector.class_name[i] \notin classes(elem) THEN FALSE
    ELSE TRUE

_matches(elem, selector) ==
    IF isinstance(selector, "SimpleSelector")
    THEN _matches_simple_selector(elem, selector)
    ELSE FALSE

\* the _MatchedRule (specificity, rule) of the first matching selector, or None
_match_rule(elem, rule) ==
    LET hits == {i \in 1..Len(rule.selectors) : _matches(elem, rule.selectors[i])}
    IN  IF hits = {} THEN NoneObj
        ELSE LET first == CHOOSE i \in hits : \A j \in hits : i <= j
             IN  [cls |-> "tuple",
                  specificity |-> specificity(rule.selectors[first]),
                  rule |-> rule]

RECURSIVE _matching_rules_from(_, _, _)
_matching_rules_from(elem, rules, i) ==
    IF i > Len(rules) THEN <<>>
    ELSE LET match == _match_rule(elem, rules[i])
         IN  (IF match # NoneObj THEN <<match>> ELSE <<>>)
             \o _matching_rules_from(elem, rules, i + 1)

_matching_rules(elem, stylesheet) == _matching_rules_from(elem, stylesheet.rules, 1)

RECURSIVE SortMatched(_)
\* rules.sort(key=lambda pair: pair[0]): stable, ascending specificity
SortMatched(rules) ==
    IF rules = <<>> THEN <<>>
    ELSE LET rest == SortMatched(SubSeq(rules, 1, Len(rules) - 1))
             r    == rules[Len(rules)]
             keep == {i \in 1..Len(rest) :
                        ~TupleLess(r.specificity, rest[i].specificity)}
             n    == Cardinality(keep)
         IN  SubSeq(rest, 1, n) \o <<r>> \o SubSeq(rest, n + 1, Len(rest))

RECURSIVE ApplyDeclarations(_, _)
ApplyDeclarations(values, declarations) ==
    IF declarations = <<>> THEN values
    ELSE ApplyDeclarations(
             DictSet(values, Head(declarations).name, Head(declarations).value),
             Tail(declarations))

RECURSIVE ApplyRules(_, _)
ApplyRules(values, rules) ==
    IF rules = <<>> THEN values
    ELSE ApplyRules(ApplyDeclarations(values, Head(rules).rule.declarations),
                    Tail(rules))

_specified_values(elem, stylesheet) ==
    ApplyRules(EmptyDict, SortMatched(_matching_rules(elem, stylesheet)))

-----------------------------------------------------------------------------
(* style.py: styled nodes *)

StyledNode(node, specified_values, children) ==
    [cls |-> "StyledNode", node |-> node, specified_values |-> specified_values,
     children |-> children]

\* a Value is always true (it defines neither __bool__ nor __len__)
value(self, name) ==
    IF name \in DOMAIN self.specified_values
    THEN self.specified_values[name]
    ELSE NoneObj

\* a or b, for a: Value | None
Or(a, b) == IF a # NoneObj THEN a ELSE b

lookup(self, name, fallback_name, default) ==
    Or(value(self, name), Or(value(self, fallback_name), default))

\* instances of the Display classes
DisplayBlock == [cls |-> "DisplayBlock"]

DisplayInline == [cls |-> "DisplayInline"]

DisplayNone == [cls |-> "DisplayNone"]

display(self) ==
    LET v == value(self, "display")
    IN  IF v # NoneObj /\ ValueEqStr(v, "block") THEN DisplayBlock
        ELSE IF v # NoneObj /\ ValueEqStr(v, "none") THEN DisplayNone
        ELSE DisplayInline

RECURSIVE style_tree(_, _)
style_tree(root, stylesheet) ==
    LET specified_values ==
            IF isinstance(root.node_type, "Element")
            THEN _specified_values(root.node_type, stylesheet)
            ELSE EmptyDict
    IN  StyledNode(root, specified_values,
                   [k \in 1..Len(root.children) |->
                       style_tree(root.children[k], stylesheet)])

-----------------------------------------------------------------------------
(* layout.py: boxes and the box tree *)

Rect(x, y, width, height) == [x |-> x, y |-> y, width |-> width, height |-> height]

EdgeSizes(left, right, top, bottom) ==
    [left |-> left, right |-> right, top |-> top, bottom |-> bottom]

Dimensions(content, padding, border, margin) ==
    [content |-> content, padding |-> padding, border |-> border, margin |-> margin]

Dimensions_default ==
    Dimensions(Rect(0, 0, 0, 0), EdgeSizes(0, 0, 0, 0), EdgeSizes(0, 0, 0, 0),
               EdgeSizes(0, 0, 0, 0))

BlockNode(styled_node) == [cls |-> "BlockNode", styled_node |-> styled_node]

InlineNode(styled_node) == [cls |-> "InlineNode", styled_node |-> styled_node]

AnonymousBlock == [cls |-> "AnonymousBlock"]

LayoutBox(dimensions, box_type, children) ==
    [cls |-> "LayoutBox", dimensions |-> dimensions, box_type |-> box_type,
     children |-> children]

LayoutBox_new(box_type) == LayoutBox(Dimensions_default, box_type, <<>>)

\* the class object a `case style.DisplayBlock:` pattern names
ClassObject(name) == [cls |-> "type", name |-> name]

\* a class pattern, `case style.DisplayBlock():`, would test the subject's class
ValuePatternMatches_byClass(subject, pattern) == subject.cls = pattern.name

\* `case <dotted name>:` is a value pattern: it compares the subject with the
\* named object by ==, here the identity of an instance with a class
ValuePatternMatches(subject, pattern) == subject = pattern

\* a local variable that no statement has bound
Unbound == [cls |-> "unbound"]

\* reading a local variable
Load(local) == IF local = Unbound THEN Raise("UnboundLocalError") ELSE local

\* self after _get_inline_container(): a block box whose last child is no
\* anonymous block has been given a new one; the container is self (inline,
\* anonymous) or that last child
_get_inline_container(self) ==
    IF isinstance(self.box_type, "InlineNode") \/ isinstance(self.box_type, "AnonymousBlock")
    THEN self
    ELSE IF isinstance(self.box_type, "BlockNode")
    THEN IF self.children # <<>>
            /\ isinstance(self.children[Len(self.children)].box_type, "AnonymousBlock")
         THEN self
         ELSE [self EXCEPT !.children = Append(@, LayoutBox_new(AnonymousBlock))]
    ELSE Raise("ValueError")

\* root._get_inline_container().children.append(box)
AppendInline(self, box) ==
    LET holder == _get_inline_container(self)
    IN  IF Raised(holder) THEN holder
        ELSE IF isinstance(self.box_type, "BlockNode")
        THEN [holder EXCEPT !.children[Len(holder.children)].children = Append(@, box)]
        ELSE [holder EXCEPT !.children = Append(@, box)]

RECURSIVE _build_layout_tree(_)
RECURSIVE BuildChildren(_, _, _)

\* the loop over style_node.children and the final `return root`
BuildChildren(root, children, i) ==
    IF i > Len(children) THEN Load(root)
    ELSE LET d == display(children[i])
         IN  IF ValuePatternMatches(d, ClassObject("DisplayBlock"))
             THEN IF Raised(Load(root)) THEN Load(root)
                  ELSE LET box == _build_layout_tree(children[i])
                       IN  IF Raised(box) THEN box
                           ELSE BuildChildren([root EXCEPT !.children = Append(@, box)],
                                              children, i + 1)
             ELSE IF ValuePatternMatches(d, ClassObject("DisplayInline"))
             THEN IF Raised(Load(root)) THEN Load(root)
                  ELSE LET box == _build_layout_tree(children[i])
                       IN  IF Raised(box) THEN box
                           ELSE BuildChildren(AppendInline(root, box), children, i + 1)
             ELSE BuildChildren(root, children, i + 1)

_build_layout_tree(style_node) ==
    LET d == display(style_node)
    IN  IF ValuePatternMatches(d, ClassObject("DisplayBlock"))
        THEN BuildChildren(LayoutBox_new(BlockNode(style_node)), style_node.children, 1)
        ELSE IF ValuePatternMatches(d, ClassObject("DisplayInline"))
        THEN BuildChildren(LayoutBox_new(InlineNode(style_node)), style_node.children, 1)
        ELSE IF ValuePatternMatches(d, ClassObject("DisplayNone"))
        THEN Raise("ValueError")
        ELSE BuildChildren(Unbound, style_node.children, 1)

-----------------------------------------------------------------------------
(* layout.py: block layout *)

expanded_by(rect, edge) ==
    Rect(rect.x - edge.left, rect.y - edge.top,
         rect.width + edge.left + edge.right, rect.height + edge.top + edge.bottom)

padding_box(d) == expanded_by(d.content, d.padding)

border_box(d) == expanded_by(padding_box(d), d.border)

margin_box(d) == expanded_by(border_box(d), d.margin)

RECURSIVE _sum(_)
_sum(iterable) == IF iterable = <<>> THEN 0 ELSE Head(iterable) + _sum(Tail(iterable))

_get_style_node(self) ==
    IF isinstance(self.box_type, "BlockNode") \/ isinstance(self.box_type, "InlineNode")
    THEN self.box_type.styled_node
    ELSE Raise("ValueError")

\* the Values _calculate_block_width allocates: auto and zero once per call,
\* the resolved lengths afresh; none of them is a Value of the stylesheet
auto == KeywordValue("auto", "auto")

zero == LengthValue("zero", 0)

NewLength(n) == LengthValue("resolved", n)

\* case (False, False, False), with the underflow dropped from margin-right
OverConstrainedMarginRight_keepSpecified(margin_right_px, underflow) == margin_right_px

\* case (False, False, False): margin_right.to_px() + underflow
OverConstrainedMarginRight(margin_right_px, underflow) == margin_right_px + underflow

\* case (True, _, _), with a negative underflow left out of margin-right
AbsorbOverflow_dropped(margin_right_px, underflow) == margin_right_px

\* case (True, _, _), underflow < 0: margin_right.to_px() + underflow
AbsorbOverflow(margin_right_px, underflow) == margin_right_px + underflow

\* underflow / 2.0 (the lengths explored keep it whole)
Half(underflow) == underflow \div 2

\* the match on (width == auto, margin_left == auto, margin_right == auto)
ResolveWidth(width, margin_left, margin_right, underflow) ==
    LET w == ValueEq(width, auto)
        l == ValueEq(margin_left, auto)
        r == ValueEq(margin_right, auto)
    IN  IF ~w /\ ~l /\ ~r
        THEN [width |-> width, margin_left |-> margin_left,
              margin_right |->
                  NewLength(OverConstrainedMarginRight(to_px(margin_right), underflow))]
        ELSE IF ~w /\ ~l /\ r
        THEN [width |-> width, margin_left |-> margin_left,
              margin_right |-> NewLength(underflow)]
        ELSE IF ~w /\ l /\ ~r
        THEN [width |-> width, margin_left |-> NewLength(underflow),
              margin_right |-> margin_right]
        ELSE IF ~w /\ l /\ r
        THEN [width |-> width, margin_left |-> NewLength(Half(underflow)),
              margin_right |-> NewLength(Half(underflow))]
        ELSE LET ml == IF l THEN NewLength(0) ELSE margin_left
                 mr == IF r THEN NewLength(0) ELSE margin_right
             IN  IF underflow >= 0
                 THEN [width |-> NewLength(underflow), margin_left |-> ml,
                       margin_right |-> mr]
                 ELSE [width |-> NewLength(0), margin_left |-> ml,
                       margin_right |-> NewLength(AbsorbOverflow(to_px(mr), underflow))]

_calculate_block_width(self, containing_block) ==
    LET style == _get_style_node(self)
        width == Or(value(style, "width"), auto)
        margin_left   == lookup(style, "margin-left", "margin", zero)
        margin_right  == lookup(style, "margin-right", "margin", zero)
        border_left   == lookup(style, "border-left-width", "border-width", zero)
        border_right  == lookup(style, "border-right-width", "border-width", zero)
        padding_left  == lookup(style, "padding-left", "padding", zero)
        padding_right == lookup(style, "padding-right", "padding", zero)
        total == _sum(<<to_px(margin_left), to_px(margin_right), to_px(border_left),
                        to_px(border_right), to_px(padding_left), to_px(padding_right),
                        to_px(width)>>)
        over == ~ValueEq(width, auto) /\ total > containing_block.content.width
        ml == IF over /\ ValueEq(margin_left, auto) THEN NewLength(0) ELSE margin_left
        mr == IF over /\ ValueEq(margin_right, auto) THEN NewLength(0) ELSE margin_right
        underflow == containing_block.content.width - total
        r == ResolveWidth(width, ml, mr, underflow)
    IN  IF Raised(style) THEN style
        ELSE [self EXCEPT !.dimensions.content.width = to_px(r.width),
                          !.dimensions.padding.left = to_px(padding_left),
                          !.dimensions.padding.right = to_px(padding_right),
                          !.dimensions.border.left = to_px(border_left),
                          !.dimensions.border.right = to_px(border_right),
                          !.dimensions.margin.left = to_px(r.margin_left),
                          !.dimensions.margin.right = to_px(r.margin_right)]

\* with the containing block's running content height added to content.y
_calculate_block_position_flow(self, containing_block) ==
    LET styled_node == _get_style_node(self)
        d == self.dimensions
        margin_top     == to_px(lookup(styled_node, "margin-top", "margin", zero))
        margin_bottom  == to_px(lookup(styled_node, "margin-bottom", "margin", zero))
        border_top     == to_px(lookup(styled_node, "border-top", "border", zero))
        border_bottom  == to_px(lookup(styled_node, "border-bottom", "border", zero))
        padding_top    == to_px(lookup(styled_node, "padding-top", "padding", zero))
        padding_bottom == to_px(lookup(styled_node, "padding-bottom", "padding", zero))
    IN  IF Raised(styled_node) THEN styled_node
        ELSE [self EXCEPT
                !.dimensions.margin.top = margin_top,
                !.dimensions.margin.bottom = margin_bottom,
                !.dimensions.border.top = border_top,
                !.dimensions.border.bottom = border_bottom,
                !.dimensions.padding.top = padding_top,
                !.dimensions.padding.bottom = padding_bottom,
                !.dimensions.content.x =
                    containing_block.content.x + d.margin.left + d.border.left
                    + d.padding.left,
                !.dimensions.content.y =
                    containing_block.content.height + containing_block.content.y
                    + margin_top + border_top + padding_top]

\* lines 186-202: the top and bottom edges, then content.x and content.y
_calculate_block_position(self, containing_block) ==
    LET styled_node == _get_style_node(self)
        d == self.dimensions
        margin_top     == to_px(lookup(styled_node, "margin-top", "margin", zero))
        margin_bottom  == to_px(lookup(styled_node, "margin-bottom", "margin", zero))
        border_top     == to_px(lookup(styled_node, "border-top", "border", zero))
        border_bottom  == to_px(lookup(styled_node, "border-bottom", "border", zero))
        padding_top    == to_px(lookup(styled_node, "padding-top", "padding", zero))
        padding_bottom == to_px(lookup(styled_node, "padding-bottom", "padding", zero))
    IN  IF Raised(styled_node) THEN styled_node
        ELSE [self EXCEPT
                !.dimensions.margin.top = margin_top,
                !.dimensions.margin.bottom = margin_bottom,
                !.dimensions.border.top = border_top,
                !.dimensions.border.bottom = border_bottom,
                !.dimensions.padding.top = padding_top,
                !.dimensions.padding.bottom = padding_bottom,
                !.dimensions.content.x =
                    containing_block.content.x + d.margin.left + d.border.left
                    + d.padding.left,
                !.dimensions.content.y =
                    containing_block.content.y + margin_top + border_top + padding_top]

_calculate_block_height(self) ==
    LET style_value == value(_get_style_node(self), "height")
    IN  IF style_value # NoneObj /\ style_value.length[2] = Px
        THEN [self EXCEPT !.dimensions.content.height = to_px(style_value)]
        ELSE self

RECURSIVE _layout(_, _)
RECURSIVE LayoutChildren(_, _)

\* the loop of _layout_block_children, from child i on
LayoutChildren(self, i) ==
    IF i > Len(self.children) THEN self
    ELSE LET child == _layout(self.children[i], self.dimensions)
         IN  LayoutChildren(
                 [self EXCEPT !.children[i] = child,
                              !.dimensions.content.height =
                                  @ + margin_box(child.dimensions).height],
                 i + 1)

_layout_block_children(self) == LayoutChildren(self, 1)

_layout_block(self, containing_block) ==
    _calculate_block_height(
        _layout_block_children(
            _calculate_block_position(
                _calculate_block_width(self, containing_block), containing_block)))

\* with an inline box laid out as a block box is
_layout_inlineToo(self, containing_block) ==
    IF isinstance(self.box_type, "BlockNode") \/ isinstance(self.box_type, "InlineNode")
    THEN _layout_block(self, containing_block)
    ELSE self

\* lines 104-109: only a BlockNode box is laid out
_layout(self, containing_block) ==
    IF isinstance(self.box_type, "BlockNode")
    THEN _layout_block(self, containing_block)
    ELSE self

\* the root box laid out, or the exception _build_layout_tree raises
layout_tree(node, containing_block) ==
    LET cb == [containing_block EXCEPT !.content.y = 0]
        root_box == _build_layout_tree(node)
    IN  IF Raised(root_box) THEN root_box ELSE _layout(root_box, cb)

-----------------------------------------------------------------------------
(* Inputs of the style functions *)

Tags == {"div", "span"}

Ids == {"a", "b"}

ClassChars == {"x", "y", " "}

\* class attribute texts, as sequences of characters
ClassAttrs == UNION {[1..n -> ClassChars] : n \in 0..MaxClassAttrLen}

AttrMaps ==
    {<<>>}
    \cup {[id |-> i] : i \in Ids}
    \cup {[class |-> c] : c \in ClassAttrs}
    \cup {[id |-> i, class |-> c] : i \in Ids, c \in ClassAttrs}

Elements == {Element(t, a) : t \in Tags, a \in AttrMaps}

ClassNames == {<<"x">>, <<"y">>}

ClassLists == UNION {[1..n -> ClassNames] : n \in 0..MaxSelClasses}

\* what Parser._parse_simple_selector builds, each wrapped as _parse_selectors does
Selectors ==
    {Selector(SimpleSelector(t, i, c)) :
        t \in Tags \cup {None}, i \in Ids \cup {None}, c \in ClassLists}

\* the cascade is explored over fewer elements and selectors
CascadeElements ==
    {Element("div", [id |-> "a", class |-> <<"x">>]),
     Element("div", <<>>),
     Element("span", [class |-> <<"x", " ", "y">>])}

SelDiv == Selector(SimpleSelector("div", None, <<>>))

SelX == Selector(SimpleSelector(None, None, <<<<"x">>>>))

SelA == Selector(SimpleSelector(None, "a", <<>>))

SelDivX == Selector(SimpleSelector("div", None, <<<<"x">>>>))

\* selector lists as written in a stylesheet: `div`, `.x`, `#a`, `div.x`,
\* `div, #a`, `.x, div.x`, `.x, div`
WrittenSelectorLists ==
    {<<SelDiv>>, <<SelX>>, <<SelA>>, <<SelDivX>>,
     <<SelDiv, SelA>>, <<SelX, SelDivX>>, <<SelX, SelDiv>>}

\* selector lists as Parser._parse_selectors returns them
SelectorLists == {SortSelectors(l) : l \in WrittenSelectorLists}

\* values as Parser._parse_value allocates them
ParsedLength(n) == LengthValue("parsed", n)

ParsedKeyword(k) == KeywordValue("parsed", k)

DeclarationLists ==
    {<<Declaration("width", ParsedLength(50))>>,
     <<Declaration("width", ParsedLength(80))>>,
     <<Declaration("display", ParsedKeyword("block"))>>,
     <<Declaration("width", ParsedLength(50)), Declaration("width", ParsedLength(80))>>,
     <<Declaration("display", ParsedKeyword("block")),
       Declaration("width", ParsedLength(80))>>}

Rules == {Rule(s, d) : s \in SelectorLists, d \in DeclarationLists}

Stylesheets == {Stylesheet(r) : r \in UNION {[1..n -> Rules] : n \in 0..MaxRules}}

-----------------------------------------------------------------------------
(* The style functions, called on the inputs above *)

Init ==
    /\ pc = "idle"
    /\ arg = <<>>
    /\ ret = <<>>

Call_matches ==
    /\ pc = "idle"
    /\ \E elem \in Elements, selector \in Selectors :
         /\ arg' = [elem |-> elem, selector |-> selector]
         /\ ret' = _matches(elem, selector)
    /\ pc' = "_matches"

Call_specified_values ==
    /\ pc = "idle"
    /\ \E elem \in CascadeElements, stylesheet \in Stylesheets :
         /\ arg' = [elem |-> elem, stylesheet |-> stylesheet]
         /\ ret' = _specified_values(elem, stylesheet)
    /\ pc' = "_specified_values"

NextStyle == Call_matches \/ Call_specified_values

SpecStyle == Init /\ [][NextStyle]_vars

-----------------------------------------------------------------------------
(* C1, C2: what the specification says of matching and of the cascade *)

\* the three conditions under which a selector is said to match an element
SelectorConditions(elem, selector) ==
    LET s == selector.simple_selector
    IN  /\ (s.tag_name = None \/ s.tag_name = elem.tag_name)
        /\ (s.id = None \/ ("id" \in DOMAIN elem.attrs /\ elem.attrs["id"] = s.id))
        /\ \A i \in 1..Len(s.class_name) : s.class_name[i] \in classes(elem)

\* the rules of a stylesheet said to match an element, by position
MatchingRules(elem, stylesheet) ==
    {i \in 1..Len(stylesheet.rules) :
        \E j \in 1..Len(stylesheet.rules[i].selectors) :
            SelectorConditions(elem, stylesheet.rules[i].selectors[j])}

\* the specificity of a matching rule: that of its most specific matching selector
RuleSpecificity(elem, rule) ==
    LET ms == {specificity(rule.selectors[j]) : j \in
                 {k \in 1..Len(rule.selectors) :
                     SelectorConditions(elem, rule.selectors[k])}}
    IN  CHOOSE m \in ms : \A o \in ms : ~TupleLess(m, o)

Declares(rule, p) == \E k \in 1..Len(rule.declarations) : rule.declarations[k].name = p

LastDeclared(rule, p) ==
    LET ks == {k \in 1..Len(rule.declarations) : rule.declarations[k].name = p}
    IN  rule.declarations[CHOOSE k \in ks : \A o \in ks : o <= k].value

\* the rule that is said to win property p: highest specificity, then latest
Winner(elem, stylesheet, p) ==
    LET cands == {i \in MatchingRules(elem, stylesheet) :
                    Declares(stylesheet.rules[i], p)}
        beats(i, j) ==
            LET si == RuleSpecificity(elem, stylesheet.rules[i])
                sj == RuleSpecificity(elem, stylesheet.rules[j])
            IN  TupleLess(sj, si) \/ (si = sj /\ j <= i)
    IN  CHOOSE i \in cands : \A j \in cands : beats(i, j)

DeclaredProperties(elem, stylesheet) ==
    {p \in {"width", "display"} :
        \E i \in MatchingRules(elem, stylesheet) : Declares(stylesheet.rules[i], p)}

\* C1: the property map returned by _specified_values gives each property
\* the value declared by the matching rule of highest specificity, whatever
\* the source order, and among rules of equal specificity by the latest one.
C1_CascadeHighestSpecificityWins ==
    pc = "_specified_values" =>
        /\ DOMAIN ret = DeclaredProperties(arg.elem, arg.stylesheet)
        /\ \A p \in DeclaredProperties(arg.elem, arg.stylesheet) :
             ret[p] = LastDeclared(
                 arg.stylesheet.rules[Winner(arg.elem, arg.stylesheet, p)], p)

\* C2: _matches returns true exactly when the selector's tag name, id and
\* classes are each absent from the selector or present on the element.
C2_MatchesIffConditions ==
    pc = "_matches" => (ret <=> SelectorConditions(arg.elem, arg.selector))
-----------------------------------------------------------------------------
(* Inputs of the box-tree builder: styled trees of up to MaxNodes nodes *)

RECURSIVE Ascending(_)
Ascending(S) ==
    IF S = {} THEN <<>>
    ELSE LET m == CHOOSE x \in S : \A y \in S : x <= y
         IN  <<m>> \o Ascending(S \ {m})

\* the shapes of a tree of n nodes: node 1 is the root, parent[i] < i
ParentMaps(n) ==
    {parent \in [1..n -> 0..n] :
        parent[1] = 0 /\ \A i \in 2..n : parent[i] \in 1..(i - 1)}

ChildrenOf(parent, i) == Ascending({j \in DOMAIN parent : parent[j] = i})

DisplayChoices == {"absent", "block", "inline", "none"}

DisplayProperty(choice) ==
    IF choice = "absent" THEN EmptyDict ELSE [display |-> ParsedKeyword(choice)]

RECURSIVE StyledSubtree(_, _, _)
StyledSubtree(parent, choice, i) ==
    LET kids == ChildrenOf(parent, i)
    IN  StyledNode(Node(Element("div", [id |-> ToString(i)]), <<>>),
                   DisplayProperty(choice[i]),
                   [k \in 1..Len(kids) |-> StyledSubtree(parent, choice, kids[k])])

\* the styled trees of n nodes, each node with any of the display choices
StyledTrees(n) ==
    {StyledSubtree(parent, choice, 1) :
        parent \in ParentMaps(n), choice \in [1..n -> DisplayChoices]}

Call_build_layout_tree ==
    /\ pc = "idle"
    /\ \E n \in 1..MaxNodes : \E style_node \in StyledTrees(n) :
         /\ arg' = [style_node |-> style_node]
         /\ ret' = _build_layout_tree(style_node)
    /\ pc' = "_build_layout_tree"

\* the viewport main.py lays the document out in
Viewport ==
    [Dimensions_default EXCEPT !.content.width = 800, !.content.height = 600]

Call_layout_tree ==
    /\ pc = "idle"
    /\ \E n \in 1..MaxNodes : \E style_node \in StyledTrees(n) :
         /\ arg' = [style_node |-> style_node, containing_block |-> Viewport]
         /\ ret' = layout_tree(style_node, Viewport)
    /\ pc' = "layout_tree"

NextBuild == Call_build_layout_tree \/ Call_layout_tree

SpecBuild == Init /\ [][NextBuild]_vars

-----------------------------------------------------------------------------
(* C3, C4, C10: what the specification says of the box tree *)

\* the Display the specification derives from the display property
SaidDisplay(style_node) ==
    IF "display" \notin DOMAIN style_node.specified_values THEN "Inline"
    ELSE IF style_node.specified_values["display"].keyword = "block" THEN "Block"
    ELSE IF style_node.specified_values["display"].keyword = "none" THEN "None"
    ELSE "Inline"

RECURSIVE StyledNodes(_)
StyledNodes(style_node) ==
    {style_node} \cup
    UNION {StyledNodes(style_node.children[k]) : k \in 1..Len(style_node.children)}

\* the styled nodes below (and including) a node said to have display None
Hidden(style_node) ==
    UNION {StyledNodes(n) : n \in {m \in StyledNodes(style_node) : SaidDisplay(m) = "None"}}

RECURSIVE Boxes(_)
Boxes(box) == {box} \cup UNION {Boxes(box.children[k]) : k \in 1..Len(box.children)}

\* the styled nodes the boxes of a box tree refer to
Referenced(box) ==
    {b.box_type.styled_node : b \in {c \in Boxes(box) : c.box_type # AnonymousBlock}}

\* C3: for a styled tree that _build_layout_tree accepts (its root is not
\* display None) and that holds a node whose display is None, a box tree
\* results, and no box of it refers to such a node or to a descendant of one.
C3_NoneSubtreesAbsent ==
    (/\ pc = "_build_layout_tree"
     /\ SaidDisplay(arg.style_node) # "None"
     /\ Hidden(arg.style_node) # {}) =>
        /\ ~Raised(ret)
        /\ Referenced(ret) \cap Hidden(arg.style_node) = {}

RECURSIVE SaidChildren(_, _, _)
\* the child list the specification gives a block box: a box per Block child,
\* an anonymous block per maximal run of Inline children
SaidChildren(children, i, acc) ==
    IF i > Len(children) THEN acc
    ELSE LET c == children[i]
             n == Len(acc)
         IN  IF SaidDisplay(c) = "Block"
             THEN SaidChildren(children, i + 1,
                               Append(acc, [kind |-> "BlockNode", nodes |-> <<c>>]))
             ELSE IF SaidDisplay(c) = "Inline"
             THEN IF n > 0 /\ acc[n].kind = "AnonymousBlock"
                  THEN SaidChildren(children, i + 1,
                                    [acc EXCEPT ![n].nodes = Append(@, c)])
                  ELSE SaidChildren(children, i + 1,
                           Append(acc, [kind |-> "AnonymousBlock", nodes |-> <<c>>]))
             ELSE SaidChildren(children, i + 1, acc)

\* the child list of a built box, in the same form
ChildList(box) ==
    [k \in 1..Len(box.children) |->
        LET c == box.children[k]
        IN  IF c.box_type = AnonymousBlock
            THEN [kind |-> "AnonymousBlock",
                  nodes |-> [j \in 1..Len(c.children) |->
                               IF c.children[j].box_type = AnonymousBlock
                               THEN AnonymousBlock
                               ELSE c.children[j].box_type.styled_node]]
            ELSE [kind |-> c.box_type.cls, nodes |-> <<c.box_type.styled_node>>]]

\* C4: for a styled node whose display is Block, _build_layout_tree produces
\* a BlockBox whose children are, in document order, one box per Block child
\* and one AnonymousBlock per maximal run of Inline children.
C4_InlineRunsShareAnonymousBlock ==
    (pc = "_build_layout_tree" /\ SaidDisplay(arg.style_node) = "Block") =>
        /\ ~Raised(ret)
        /\ ret.box_type.cls = "BlockNode"
        /\ ChildList(ret) = SaidChildren(arg.style_node.children, 1, <<>>)

\* C10: _build_layout_tree raises, and produces no box tree, whenever the
\* root styled node's display is None.
C10_NoneRootRaises ==
    (pc \in {"_build_layout_tree", "layout_tree"} /\ SaidDisplay(arg.style_node) = "None") =>
        Raised(ret)

C10_Witness ==
    /\ pc = "_build_layout_tree"
    /\ SaidDisplay(arg.style_node) = "None"
    /\ arg.style_node.children # <<>>
    /\ Raised(ret)
-----------------------------------------------------------------------------
(* Inputs of _calculate_block_width: one block box and its containing block *)

RECURSIVE PropertyMapOf(_)
\* the specified values holding each property that is given a Value
PropertyMapOf(pairs) ==
    IF pairs = <<>> THEN EmptyDict
    ELSE LET rest == PropertyMapOf(Tail(pairs))
         IN  IF Head(pairs)[2] = NoneObj THEN rest
             ELSE DictSet(rest, Head(pairs)[1], Head(pairs)[2])

WidthChoices == {NoneObj, ParsedKeyword("auto"), ParsedLength(50), ParsedLength(80)}

MarginLeftChoices == {NoneObj, ParsedKeyword("auto"), ParsedLength(30), ParsedLength(120)}

MarginRightChoices == {NoneObj, ParsedKeyword("auto"), ParsedLength(0), ParsedLength(20)}

MarginChoices == {NoneObj, ParsedKeyword("auto"), ParsedLength(10)}

BorderWidthChoices == {NoneObj, ParsedLength(5)}

PaddingLeftChoices == {NoneObj, ParsedLength(10)}

PaddingChoices == {NoneObj, ParsedLength(20)}

ContainingWidths == {100, 800}

ContainingBlock(width) == [Dimensions_default EXCEPT !.content.width = width]

BlockBoxOf(specified_values) ==
    LayoutBox_new(BlockNode(
        StyledNode(Node(Element("div", <<>>), <<>>), specified_values, <<>>)))

Call_calculate_block_width ==
    /\ pc = "idle"
    /\ \E w \in WidthChoices, ml \in MarginLeftChoices, mr \in MarginRightChoices,
          m \in MarginChoices, bw \in BorderWidthChoices, pl \in PaddingLeftChoices,
          p \in PaddingChoices, cw \in ContainingWidths :
         LET self == BlockBoxOf(PropertyMapOf(
                         <<<<"width", w>>, <<"margin-left", ml>>, <<"margin-right", mr>>,
                           <<"margin", m>>, <<"border-width", bw>>,
                           <<"padding-left", pl>>, <<"padding", p>>>>))
         IN  /\ arg' = [self |-> self, containing_block |-> ContainingBlock(cw)]
             /\ ret' = _calculate_block_width(self, ContainingBlock(cw))
    /\ pc' = "_calculate_block_width"

\* a second call, on a box whose width and margins are the lengths the first
\* call resolved, with the same borders, paddings and containing block
Call_calculate_block_width_again ==
    /\ pc = "_calculate_block_width"
    /\ LET d == ret.dimensions
           sv == arg.self.box_type.styled_node.specified_values
           fed == DictSet(DictSet(DictSet(sv,
                      "width", ParsedLength(d.content.width)),
                      "margin-left", ParsedLength(d.margin.left)),
                      "margin-right", ParsedLength(d.margin.right))
           self == BlockBoxOf(fed)
       IN  /\ arg' = [self |-> self, containing_block |-> arg.containing_block,
                      first |-> ret]
           /\ ret' = _calculate_block_width(self, arg.containing_block)
    /\ pc' = "_calculate_block_width_again"

NextWidth == Call_calculate_block_width \/ Call_calculate_block_width_again

SpecWidth == Init /\ [][NextWidth]_vars

-----------------------------------------------------------------------------
(* C5, C6, C7, C9: what the specification says of the width resolution *)

\* a value the specification takes as auto: the keyword auto (or, for the
\* width, no value at all)
SaidAuto(v) == v.keyword = "auto"

ArgStyle == arg.self.box_type.styled_node

SpecifiedWidth == Or(value(ArgStyle, "width"), auto)

SpecifiedMarginLeft == lookup(ArgStyle, "margin-left", "margin", zero)

SpecifiedMarginRight == lookup(ArgStyle, "margin-right", "margin", zero)

\* a length's pixels, an auto value counting as 0
PxOrZero(v) == IF SaidAuto(v) THEN 0 ELSE to_px(v)

\* border-left + padding-left + padding-right + border-right
FixedEdges ==
    to_px(lookup(ArgStyle, "border-left-width", "border-width", zero))
    + to_px(lookup(ArgStyle, "border-right-width", "border-width", zero))
    + to_px(lookup(ArgStyle, "padding-left", "padding", zero))
    + to_px(lookup(ArgStyle, "padding-right", "padding", zero))

SaidUnderflow ==
    arg.containing_block.content.width
    - (PxOrZero(SpecifiedMarginLeft) + PxOrZero(SpecifiedMarginRight) + FixedEdges
       + PxOrZero(SpecifiedWidth))

\* C5: with an explicit width, both margins the keyword auto, and no
\* overflow, margin-left and margin-right are equal, each half the underflow.
C5_AutoMarginsSplitUnderflow ==
    (/\ pc = "_calculate_block_width"
     /\ ~SaidAuto(SpecifiedWidth)
     /\ SaidAuto(SpecifiedMarginLeft)
     /\ SaidAuto(SpecifiedMarginRight)
     /\ SaidUnderflow >= 0) =>
        /\ ret.dimensions.margin.left = ret.dimensions.margin.right
        /\ 2 * ret.dimensions.margin.left = SaidUnderflow

\* C6: with width, margin-left and margin-right all non-auto, the width and
\* margin-left keep their values and margin-right becomes the containing
\* width less all the other edges and the width, whatever it was.
C6_OverConstrainedMarginRight ==
    (/\ pc = "_calculate_block_width"
     /\ ~SaidAuto(SpecifiedWidth)
     /\ ~SaidAuto(SpecifiedMarginLeft)
     /\ ~SaidAuto(SpecifiedMarginRight)) =>
        /\ ret.dimensions.content.width = to_px(SpecifiedWidth)
        /\ ret.dimensions.margin.left = to_px(SpecifiedMarginLeft)
        /\ ret.dimensions.margin.right =
               arg.containing_block.content.width
               - (to_px(SpecifiedMarginLeft) + FixedEdges + to_px(SpecifiedWidth))

\* containing width 100, width 80, margin-left 30, margin-right 0: -10
C6_Witness ==
    /\ pc = "_calculate_block_width"
    /\ arg.containing_block.content.width = 100
    /\ value(ArgStyle, "width") = ParsedLength(80)
    /\ value(ArgStyle, "margin-left") = ParsedLength(30)
    /\ value(ArgStyle, "margin-right") = ParsedLength(0)
    /\ FixedEdges = 0
    /\ ret.dimensions.margin.right = -10

\* C7: with an auto width (absent or the keyword auto) auto margins become 0
\* and the width max(underflow, 0); a negative underflow goes to margin-right.
C7_AutoWidthTakesUnderflow ==
    (pc = "_calculate_block_width" /\ SaidAuto(SpecifiedWidth)) =>
        /\ ret.dimensions.margin.left = PxOrZero(SpecifiedMarginLeft)
        /\ ret.dimensions.content.width =
               IF SaidUnderflow >= 0 THEN SaidUnderflow ELSE 0
        /\ ret.dimensions.margin.right =
               IF SaidUnderflow >= 0 THEN PxOrZero(SpecifiedMarginRight)
               ELSE PxOrZero(SpecifiedMarginRight) + SaidUnderflow

\* C9: resolving again from the resolved width and margins, as explicit
\* lengths, gives the same width, margin-left and margin-right.
C9_WidthResolutionIdempotent ==
    pc = "_calculate_block_width_again" =>
        /\ ret.dimensions.content.width = arg.first.dimensions.content.width
        /\ ret.dimensions.margin.left = arg.first.dimensions.margin.left
        /\ ret.dimensions.margin.right = arg.first.dimensions.margin.right

\* a second resolution after a first one that absorbed an overflow
C9_Witness ==
    /\ pc = "_calculate_block_width_again"
    /\ arg.first.dimensions.content.width = 0
    /\ arg.first.dimensions.margin.right < 0
    /\ ret.dimensions.margin.right = arg.first.dimensions.margin.right
-----------------------------------------------------------------------------
(* main.py: a document and a stylesheet are styled, then laid out *)

NodeKinds == {"div", "span", "text"}

DomNodeType(kind) == IF kind = "text" THEN Text("t") ELSE Element(kind, <<>>)

RECURSIVE DomSubtree(_, _, _)
DomSubtree(parent, kind, i) ==
    LET kids == ChildrenOf(parent, i)
    IN  Node(DomNodeType(kind[i]),
             [k \in 1..Len(kids) |-> DomSubtree(parent, kind, kids[k])])

\* the documents of a given shape; a text node has no children
DocumentsOfShape(parent) ==
    {DomSubtree(parent, kind, 1) :
        kind \in {f \in [DOMAIN parent -> NodeKinds] :
                    \A i \in DOMAIN parent : i > 1 => f[parent[i]] # "text"}}

Documents(n) == UNION {DocumentsOfShape(parent) : parent \in ParentMaps(n)}

TagRule(tag_name, name, val) ==
    Rule(<<Selector(SimpleSelector(tag_name, None, <<>>))>>, <<Declaration(name, val)>>)

MainRules ==
    {TagRule("div", "display", ParsedKeyword("block")),
     TagRule("span", "display", ParsedKeyword("inline")),
     TagRule("span", "display", ParsedKeyword("none")),
     TagRule("div", "width", ParsedLength(50))}

MainStylesheets ==
    {Stylesheet(r) : r \in UNION {[1..n -> MainRules] : n \in 0..MaxRules}}

Main_style_tree ==
    /\ pc = "idle"
    /\ \E n \in 1..MaxDocNodes : \E root_node \in Documents(n), stylesheet \in MainStylesheets :
         /\ arg' = [root |-> root_node, stylesheet |-> stylesheet]
         /\ ret' = style_tree(root_node, stylesheet)
    /\ pc' = "style_tree"

Main_layout_tree ==
    /\ pc = "style_tree"
    /\ arg' = [root |-> arg.root, stylesheet |-> arg.stylesheet,
               style_node |-> ret, containing_block |-> Viewport]
    /\ ret' = layout_tree(ret, Viewport)
    /\ pc' = "layout_tree"

Next == Main_style_tree \/ Main_layout_tree

Spec == Init /\ [][Next]_vars

-----------------------------------------------------------------------------
(* C8: what the specification says of a div holding one span *)

\* the Display the specification gives an element under a stylesheet
SaidDisplayOf(elem, stylesheet) ==
    IF "display" \notin DeclaredProperties(elem, stylesheet) THEN "Inline"
    ELSE LET v == LastDeclared(stylesheet.rules[Winner(elem, stylesheet, "display")],
                               "display")
         IN  IF v.keyword = "block" THEN "Block"
             ELSE IF v.keyword = "none" THEN "None"
             ELSE "Inline"

\* a root div, display block with no width declared, whose only child is an
\* inline span
DivHoldingOneSpan(root, stylesheet) ==
    /\ root.node_type = Element("div", <<>>)
    /\ Len(root.children) = 1
    /\ root.children[1].node_type = Element("span", <<>>)
    /\ SaidDisplayOf(root.node_type, stylesheet) = "Block"
    /\ "width" \notin DeclaredProperties(root.node_type, stylesheet)
    /\ SaidDisplayOf(root.children[1].node_type, stylesheet) = "Inline"

\* C8: styled and laid out in a containing block 800 wide, a div (display
\* block, no width) holding one inline span becomes a BlockBox of content
\* width 800 with zero margins whose only child is an AnonymousBlock.
C8_DivWithSpanFillsViewport ==
    (pc = "layout_tree" /\ DivHoldingOneSpan(arg.root, arg.stylesheet)) =>
        /\ ~Raised(ret)
        /\ ret.box_type.cls = "BlockNode"
        /\ ret.dimensions.content.width = 800
        /\ ret.dimensions.margin = EdgeSizes(0, 0, 0, 0)
        /\ Len(ret.children) = 1
        /\ ret.children[1].box_type = AnonymousBlock

-----------------------------------------------------------------------------
(* StyledNode.display(), called on styled nodes with any display value *)

\* the values a stylesheet can give the display property: none at all, a
\* keyword (recognised or not), a length
DisplayValues ==
    {NoneObj, ParsedKeyword("block"), ParsedKeyword("none"), ParsedKeyword("inline"),
     ParsedKeyword("flex"), ParsedLength(5)}

Call_display ==
    /\ pc = "idle"
    /\ \E d \in DisplayValues, w \in WidthChoices, m \in MarginChoices,
          p \in PaddingChoices :
         LET self == StyledNode(Node(Element("div", <<>>), <<>>),
                                PropertyMapOf(<<<<"display", d>>, <<"width", w>>,
                                                <<"margin", m>>, <<"padding", p>>>>),
                                <<>>)
         IN  /\ arg' = [self |-> self]
             /\ ret' = display(self)
    /\ pc' = "display"

NextDisplay == Call_display

SpecDisplay == Init /\ [][NextDisplay]_vars

\* C11: display() returns Block when the display property is the keyword
\* block, None when it is the keyword none, and Inline when the property is
\* absent or is any other value.
C11_DisplayFromKeyword ==
    pc = "display" =>
        ret = (IF SaidDisplay(arg.self) = "Block" THEN DisplayBlock
               ELSE IF SaidDisplay(arg.self) = "None" THEN DisplayNone
               ELSE DisplayInline)

-----------------------------------------------------------------------------
(* C12: what the specification says of a whole pass *)

\* the Display the specification gives a document's root: that of its
\* element under the stylesheet, Inline for a node that is no element
SaidRootDisplay(root, stylesheet) ==
    IF root.node_type.cls = "Element"
    THEN SaidDisplayOf(root.node_type, stylesheet)
    ELSE "Inline"

\* C12: for every document and stylesheet whose root's resolved display is
\* not None, style_tree followed by layout_tree raises nothing and returns a
\* root box that is a BlockBox for a Block root, an InlineBox for an Inline one.
C12_PassCompletesWithRootBox ==
    (pc = "layout_tree" /\ SaidRootDisplay(arg.root, arg.stylesheet) # "None") =>
        /\ ~Raised(ret)
        /\ ret.box_type.cls =
               (IF SaidRootDisplay(arg.root, arg.stylesheet) = "Block"
                THEN "BlockNode" ELSE "InlineNode")

-----------------------------------------------------------------------------
(* Inputs of LayoutBox._layout: box trees of up to MaxBoxes boxes, each box *)
(* as LayoutBox._new leaves it, nested as the branches of                   *)
(* _build_layout_tree and _get_inline_container nest them                   *)

MaxBoxes == 3   \* boxes in one box tree

\* specified values of a block box
BlockStyles ==
    {EmptyDict,
     [height |-> ParsedLength(10)],
     [height |-> ParsedLength(20), margin |-> ParsedLength(5)],
     [height |-> ParsedKeyword("auto")],
     PropertyMapOf(<<<<"width", ParsedLength(50)>>, <<"margin-left", ParsedLength(30)>>,
                     <<"margin-top", ParsedLength(7)>>, <<"border-top", ParsedLength(2)>>,
                     <<"padding-top", ParsedLength(3)>>, <<"padding", ParsedLength(4)>>>>)}

\* specified values of an inline box
InlineStyles == {EmptyDict, [height |-> ParsedLength(10)]}

BoxChoices ==
    {[kind |-> "BlockNode", sv |-> s] : s \in BlockStyles}
    \cup {[kind |-> "InlineNode", sv |-> s] : s \in InlineStyles}
    \cup {[kind |-> "AnonymousBlock", sv |-> EmptyDict]}

\* the root is a block or inline box (lines 240, 242); a block box holds
\* block boxes (line 249) and anonymous blocks (line 222); an anonymous block
\* holds inline boxes, an inline box block and inline boxes (lines 217, 251)
Nests(parent, choice) ==
    /\ choice[1].kind # "AnonymousBlock"
    /\ \A i \in DOMAIN parent : i > 1 =>
         LET outer == choice[parent[i]].kind
             inner == choice[i].kind
         IN  \/ outer = "BlockNode" /\ inner \in {"BlockNode", "AnonymousBlock"}
             \/ outer = "AnonymousBlock" /\ inner = "InlineNode"
             \/ outer = "InlineNode" /\ inner \in {"BlockNode", "InlineNode"}

RECURSIVE StyledChildren(_)
\* the styled nodes the boxes of a child list were built from
StyledChildren(boxes) ==
    IF boxes = <<>> THEN <<>>
    ELSE (IF Head(boxes).box_type = AnonymousBlock
          THEN StyledChildren(Head(boxes).children)
          ELSE <<Head(boxes).box_type.styled_node>>)
         \o StyledChildren(Tail(boxes))

RECURSIVE BoxSubtree(_, _, _)
BoxSubtree(parent, choice, i) ==
    LET kids == ChildrenOf(parent, i)
        boxes == [k \in 1..Len(kids) |-> BoxSubtree(parent, choice, kids[k])]
        styled_node == StyledNode(Node(Element("div", [id |-> ToString(i)]), <<>>),
                                  choice[i].sv, StyledChildren(boxes))
    IN  IF choice[i].kind = "AnonymousBlock"
        THEN LayoutBox(Dimensions_default, AnonymousBlock, boxes)
        ELSE IF choice[i].kind = "BlockNode"
        THEN LayoutBox(Dimensions_default, BlockNode(styled_node), boxes)
        ELSE LayoutBox(Dimensions_default, InlineNode(styled_node), boxes)

BoxTrees(n) ==
    UNION {{BoxSubtree(parent, choice, 1) :
              choice \in {c \in [1..n -> BoxChoices] : Nests(parent, c)}} :
           parent \in ParentMaps(n)}

\* the viewport, and a containing block away from the origin
ContainingBlocks ==
    {Viewport,
     [Dimensions_default EXCEPT !.content.x = 8, !.content.y = 16,
                                !.content.width = 100]}

Call_layout ==
    /\ pc = "idle"
    /\ \E n \in 1..MaxBoxes : \E self \in BoxTrees(n), cb \in ContainingBlocks :
         /\ arg' = [self |-> self, containing_block |-> cb]
         /\ ret' = _layout(self, cb)
    /\ pc' = "_layout"

NextLayout == Call_layout

SpecLayout == Init /\ [][NextLayout]_vars

-----------------------------------------------------------------------------
(* C13, C14, C15, C19: what the specification says of a laid-out box tree *)

RECURSIVE SumHeights(_, _)
\* the margin-box heights of the first n boxes of a child list, summed
SumHeights(children, n) ==
    IF n = 0 THEN 0
    ELSE SumHeights(children, n - 1) + margin_box(children[n].dimensions).height

RECURSIVE Stacked(_)
\* each block child of a laid-out block box has the top of its margin box at
\* the parent's content.y plus the margin-box heights of the children before it
Stacked(box) ==
    box.box_type.cls = "BlockNode" =>
        \A k \in 1..Len(box.children) :
            /\ box.children[k].box_type.cls = "BlockNode" =>
                   margin_box(box.children[k].dimensions).y =
                       box.dimensions.content.y + SumHeights(box.children, k - 1)
            /\ Stacked(box.children[k])

\* C13: after the layout of a block box, the top of each block child's margin
\* box is at the parent's content.y plus the sum of the margin-box heights of
\* the children before it, so block siblings of non-zero height stack.
C13_BlockChildrenStack ==
    pc = "_layout" => Stacked(ret)

\* no top margin, border or padding is specified for the box
NoTopEdgeSpecified(box) ==
    DOMAIN box.box_type.styled_node.specified_values
    \cap {"margin-top", "margin", "border-top", "border", "border-top-width",
          "border-width", "padding-top", "padding"} = {}

RECURSIVE Positioned(_, _, _)
\* a block box laid out against cb, and every block box laid out below it,
\* has its content origin at cb's content origin plus its own left (top)
\* margin, border and padding; the left edges are those of the width step
Positioned(before, after, cb) ==
    after.box_type.cls = "BlockNode" =>
        LET d == after.dimensions
            w == _calculate_block_width(before, cb).dimensions
            style == after.box_type.styled_node
        IN  /\ d.content.x = cb.content.x + d.margin.left + d.border.left + d.padding.left
            /\ d.content.y = cb.content.y + d.margin.top + d.border.top + d.padding.top
            /\ d.margin.left = w.margin.left
            /\ d.border.left = w.border.left
            /\ d.padding.left = w.padding.left
            /\ d.margin.top = to_px(lookup(style, "margin-top", "margin", zero))
            /\ d.padding.top = to_px(lookup(style, "padding-top", "padding", zero))
            /\ NoTopEdgeSpecified(after) =>
                   d.margin.top = 0 /\ d.border.top = 0 /\ d.padding.top = 0
            /\ \A k \in 1..Len(after.children) :
                   Positioned(before.children[k], after.children[k], d)

\* C14: after the layout of a block box against a containing block CB,
\* content.x = CB.content.x + margin.left + border.left + padding.left and
\* content.y = CB.content.y + margin.top + border.top + padding.top, with the
\* left edges as the width step resolved them and the top edges the box's
\* resolved ones, 0 when unspecified.
C14_ContentOriginFromContainingBlock ==
    pc = "_layout" => Positioned(arg.self, ret, arg.containing_block)

\* a block child with top and left edges, laid out in a parent whose content
\* box is away from the origin and already has a height
C14_Witness ==
    /\ pc = "_layout"
    /\ ret.box_type.cls = "BlockNode"
    /\ Len(ret.children) = 2
    /\ ret.dimensions.content.x > 0
    /\ ret.dimensions.content.y > 0
    /\ margin_box(ret.children[1].dimensions).height > 0
    /\ ret.children[2].box_type.cls = "BlockNode"
    /\ ret.children[2].dimensions.margin.top = 7
    /\ ret.children[2].dimensions.margin.left = 30
    /\ ret.children[2].dimensions.content.y = ret.dimensions.content.y + 7 + 2 + 3

\* the height property is an explicit pixel length (not absent, not a keyword)
ExplicitHeight(box) ==
    LET v == value(box.box_type.styled_node, "height")
    IN  v # NoneObj /\ v.keyword = "" /\ v.length[2] = Px

\* the box with no height property
WithoutHeight(box) ==
    LET sv == box.box_type.styled_node.specified_values
    IN  [box EXCEPT !.box_type.styled_node.specified_values =
                        [p \in DOMAIN sv \ {"height"} |-> sv[p]]]

RECURSIVE HeightAsSaid(_, _, _)
\* a laid-out block box, and every block box laid out below it, is as high as
\* its explicit height says, else as the margin boxes of its children
\* together; its children are as they are without the height property
HeightAsSaid(before, after, cb) ==
    after.box_type.cls = "BlockNode" =>
        /\ after.dimensions.content.height =
               (IF ExplicitHeight(after)
                THEN to_px(value(after.box_type.styled_node, "height"))
                ELSE SumHeights(after.children, Len(after.children)))
        /\ after.children = _layout(WithoutHeight(before), cb).children
        /\ \A k \in 1..Len(after.children) :
               HeightAsSaid(before.children[k], after.children[k], after.dimensions)

\* C15: after the layout of a block box its content height is its height
\* property when that is an explicit pixel length, and otherwise (absent, or
\* a keyword such as auto) the sum of its children's margin-box heights; an
\* explicit height changes no child's dimensions.
C15_HeightExplicitOrChildren ==
    pc = "_layout" => HeightAsSaid(arg.self, ret, arg.containing_block)

\* the inline boxes and anonymous blocks of a box tree
InlineLevel(box) ==
    {b \in Boxes(box) : b.box_type.cls \in {"InlineNode", "AnonymousBlock"}}

\* C19: after a layout pass every InlineBox and AnonymousBlock, and every box
\* below one (block boxes included), still has its default all-zero
\* Dimensions, and so adds 0 to its parent's content height.
C19_InlineLayoutIsNoOp ==
    pc = "_layout" =>
        \A b \in InlineLevel(ret) :
            /\ \A c \in Boxes(b) : c.dimensions = Dimensions_default
            /\ margin_box(b.dimensions).height = 0

\* a laid-out block box holding an anonymous block whose inline box has a
\* height property: the inline box keeps its Dimensions, the block box its
\* content height of 0
C19_Witness ==
    /\ pc = "_layout"
    /\ ret.box_type.cls = "BlockNode"
    /\ ret.dimensions.content.width = 800
    /\ ret.dimensions.content.height = 0
    /\ \E k \in 1..Len(ret.children) :
         /\ ret.children[k].box_type = AnonymousBlock
         /\ \E j \in 1..Len(ret.children[k].children) :
              /\ "height" \in DOMAIN
                     ret.children[k].children[j].box_type.styled_node.specified_values
              /\ ret.children[k].children[j].dimensions = Dimensions_default

-----------------------------------------------------------------------------
(* C16: the width constraint *)

\* the seven horizontal edges of a box's Dimensions, summed
HorizontalSum(d) ==
    d.margin.left + d.border.left + d.padding.left + d.content.width
    + d.padding.right + d.border.right + d.margin.right

\* C16: for every combination of specified width, margins, borders and
\* paddings (auto or length), after _calculate_block_width margin.left +
\* border.left + padding.left + content.width + padding.right + border.right
\* + margin.right equals the containing block's content width.
C16_WidthConstraint ==
    pc \in {"_calculate_block_width", "_calculate_block_width_again"} =>
        HorizontalSum(ret.dimensions) = arg.containing_block.content.width

\* an over-constrained box with borders and paddings: containing width 100,
\* width 80, margin-left 120, and a negative margin-right making up the sum
C16_Witness ==
    /\ pc = "_calculate_block_width"
    /\ arg.containing_block.content.width = 100
    /\ ret.dimensions.content.width = 80
    /\ ret.dimensions.margin.left = 120
    /\ ret.dimensions.border.left = 5
    /\ ret.dimensions.padding.left = 10
    /\ ret.dimensions.padding.right = 20
    /\ ret.dimensions.margin.right = 100 - (120 + 5 + 10 + 80 + 20 + 5)

-----------------------------------------------------------------------------
(* The rule matching of the cascade, called on parsed rules *)

Call_match_rule ==
    /\ pc = "idle"
    /\ \E elem \in CascadeElements, rule \in Rules :
         /\ arg' = [elem |-> elem, rule |-> rule]
         /\ ret' = _match_rule(elem, rule)
    /\ pc' = "_match_rule"

Call_matching_rules ==
    /\ pc = "idle"
    /\ \E elem \in CascadeElements, stylesheet \in Stylesheets :
         /\ arg' = [elem |-> elem, stylesheet |-> stylesheet]
         /\ ret' = _matching_rules(elem, stylesheet)
    /\ pc' = "_matching_rules"

NextCascade == Call_match_rule \/ Call_matching_rules

SpecCascade == Init /\ [][NextCascade]_vars

\* the selectors of a rule said to match an element, by position
MatchingSelectors(elem, rule) ==
    {j \in 1..Len(rule.selectors) : SelectorConditions(elem, rule.selectors[j])}

\* the specificity of the first selector of a rule said to match
FirstMatchSpecificity(elem, rule) ==
    LET js == MatchingSelectors(elem, rule)
    IN  specificity(rule.selectors[CHOOSE j \in js : \A o \in js : j <= o])

\* C17: in the cascade for one element each rule contributes at most once,
\* however many of its selectors match; a rule with a matching selector is
\* recorded with the specificity of the first matching selector of its list,
\* the most specific matching one as the parser sorts the list.
C17_RuleContributesOnceWithFirstMatch ==
    /\ pc = "_match_rule" =>
         IF MatchingSelectors(arg.elem, arg.rule) = {}
         THEN ret = NoneObj
         ELSE /\ ret # NoneObj
              /\ ret.rule = arg.rule
              /\ ret.specificity = FirstMatchSpecificity(arg.elem, arg.rule)
              /\ ret.specificity = RuleSpecificity(arg.elem, arg.rule)
    /\ pc = "_matching_rules" =>
         LET hits == Ascending(MatchingRules(arg.elem, arg.stylesheet))
         IN  /\ Len(ret) = Len(hits)
             /\ \A k \in 1..Len(hits) :
                  /\ ret[k].rule = arg.stylesheet.rules[hits[k]]
                  /\ ret[k].specificity =
                         FirstMatchSpecificity(arg.elem, arg.stylesheet.rules[hits[k]])

-----------------------------------------------------------------------------
(* C18: what the specification says of the levels of a built box tree *)

\* the classes of the box types of a box's children
ChildKinds(box) == {box.children[k].box_type.cls : k \in 1..Len(box.children)}

\* no block-level child (BlockBox, AnonymousBlock) beside an InlineBox child;
\* nothing but InlineBoxes in an AnonymousBlock
SegregatedLevel(box) ==
    /\ ~(/\ ChildKinds(box) \cap {"BlockNode", "AnonymousBlock"} # {}
         /\ "InlineNode" \in ChildKinds(box))
    /\ box.box_type = AnonymousBlock => ChildKinds(box) \subseteq {"InlineNode"}

\* C18: _build_layout_tree builds, from every styled tree whose root is not
\* display None, a box tree in which no box of any type has both a
\* block-level child and an InlineBox child, and in which every child of an
\* AnonymousBlock is an InlineBox.
C18_LevelsSegregated ==
    (pc = "_build_layout_tree" /\ SaidDisplay(arg.style_node) # "None") =>
        /\ ~Raised(ret)
        /\ \A b \in Boxes(ret) : SegregatedLevel(b)

-----------------------------------------------------------------------------
(* _layout_block with the children laid out in any order: the steps of      *)
(* lines 212-213, one child at a time, between the steps of lines 112-113   *)
(* and of line 115                                                          *)

MaxSiblings == 3   \* children of the block box laid out

FamilyChoices ==
    {c \in BoxChoices :
        c.sv \in {EmptyDict, [height |-> ParsedLength(10)],
                  [height |-> ParsedLength(20), margin |-> ParsedLength(5)]}}

\* a root with k children, the first of which has a child of its own when
\* grandchild is 1
FamilyShape(k, grandchild) ==
    [i \in 1..(k + 1 + grandchild) |->
        IF i = 1 THEN 0 ELSE IF i <= k + 1 THEN 1 ELSE 2]

\* the block boxes with k children; a grandchild has a height property
Families(k) ==
    UNION {{BoxSubtree(FamilyShape(k, g), choice, 1) :
              choice \in {c \in [1..(k + 1 + g) -> FamilyChoices] :
                            /\ Nests(FamilyShape(k, g), c)
                            /\ c[1].kind = "BlockNode"
                            /\ g = 1 => c[k + 2].sv = [height |-> ParsedLength(10)]}} :
           g \in {0, 1}}

OffsetBlock ==
    [Dimensions_default EXCEPT !.content.x = 8, !.content.y = 16, !.content.width = 100]

\* lines 112-113: the width and position of the box, before any child
Begin_layout_block ==
    /\ pc = "idle"
    /\ \E k \in 1..MaxSiblings : \E self \in Families(k) :
         /\ arg' = [self |-> self, containing_block |-> OffsetBlock,
                    todo |-> 1..Len(self.children)]
         /\ ret' = _calculate_block_position(
                       _calculate_block_width(self, OffsetBlock), OffsetBlock)
    /\ pc' = "_layout_block_children"

\* lines 212-213 for one child, taken in any order
Layout_child ==
    /\ pc = "_layout_block_children"
    /\ \E i \in arg.todo :
         LET child == _layout(ret.children[i], ret.dimensions)
         IN  /\ ret' = [ret EXCEPT !.children[i] = child,
                                   !.dimensions.content.height =
                                       @ + margin_box(child.dimensions).height]
             /\ arg' = [arg EXCEPT !.todo = @ \ {i}]
    /\ pc' = pc

\* line 115, once every child is laid out
Finish_layout_block ==
    /\ pc = "_layout_block_children"
    /\ arg.todo = {}
    /\ ret' = _calculate_block_height(ret)
    /\ arg' = arg
    /\ pc' = "_layout_block"

NextSiblings == Begin_layout_block \/ Layout_child \/ Finish_layout_block

SpecSiblings == Init /\ [][NextSiblings]_vars

\* what _layout_block leaves, its children laid out in document order
InOrder == _layout_block(arg.self, arg.containing_block)

\* C20: laying out the children of a block box in any order gives every box
\* of every child subtree the same final Dimensions, and the parent the same
\* final content height, as document order does; a child's layout writes
\* only the boxes of its own subtree.
C20_SiblingOrderIrrelevant ==
    /\ pc = "_layout_block" => ret = InOrder
    /\ pc = "_layout_block_children" =>
         /\ \A i \in (1..Len(ret.children)) \ arg.todo :
              ret.children[i] = InOrder.children[i]
         /\ \A i \in arg.todo : ret.children[i] = arg.self.children[i]
         /\ [ret.dimensions EXCEPT !.content.height = 0] =
                [InOrder.dimensions EXCEPT !.content.height = 0]

\* three children of which the last two, of non-zero height, are laid out
\* and the first is not yet
C20_Witness ==
    /\ pc = "_layout_block_children"
    /\ Len(ret.children) = 3
    /\ arg.todo = {1}
    /\ margin_box(ret.children[2].dimensions).height > 0
    /\ margin_box(ret.children[3].dimensions).height > 0
    /\ arg.self.children[1].box_type.cls = "BlockNode"
    /\ ret.children[3] = InOrder.children[3]

-----------------------------------------------------------------------------
(* The walk of root_box._layout(containing_block), one statement at a time.  *)
(* A box is named by its path, the child indexes leading to it from the     *)
(* root.  ret holds the box tree being mutated, the stack of the running    *)
(* _layout calls (each with the path of its self, the step of _layout_block *)
(* it is at, and its position in the loop over the children), and a log of  *)
(* the statements run so far.  A statement's operands are bound as values  *)
(* (\E over a one-element set), so each is computed once per step.          *)

\* the box trees walked: boxes of every type, with no specified value or
\* with a height and a margin
WalkTrees(n) ==
    LET WalkChoices ==
            {c \in BoxChoices :
                c.sv \in {EmptyDict,
                          [height |-> ParsedLength(20), margin |-> ParsedLength(5)]}}
    IN  UNION {{BoxSubtree(parent, choice, 1) :
                  choice \in {c \in [1..n -> WalkChoices] : Nests(parent, c)}} :
               parent \in ParentMaps(n)}

RECURSIVE GetBox(_, _)
GetBox(tree, path) ==
    IF path = <<>> THEN tree ELSE GetBox(tree.children[Head(path)], Tail(path))

RECURSIVE SetBox(_, _, _)
SetBox(tree, path, box) ==
    IF path = <<>> THEN box
    ELSE [tree EXCEPT !.children[Head(path)] = SetBox(@, Tail(path), box)]

\* the steps of _layout_block with the height taken before the children
_layout_block_steps_heightFirst == <<"width", "position", "height", "children">>

\* lines 112-115, in the order they are written
_layout_block_steps == <<"width", "position", "children", "height">>

\* a call of _layout on the box at path: not yet dispatched (step 0)
Frame(path) == [path |-> path, step |-> 0, i |-> 1, called |-> FALSE]

Top == ret.stack[Len(ret.stack)]

\* the step of _layout_block the running call is at
TopStep ==
    IF Top.step = 0 THEN "enter" ELSE _layout_block_steps[Top.step]

\* the containing_block argument of the running call: the caller's own
\* Dimensions object (line 212), or the one the walk was started with
TopContainingBlock ==
    IF Top.path = <<>> THEN arg.containing_block
    ELSE GetBox(ret.tree, SubSeq(Top.path, 1, Len(Top.path) - 1)).dimensions

Event(path, ev, i) == [path |-> path, ev |-> ev, i |-> i]

\* ret after the running call has returned to its caller
Returned(r, path) ==
    [r EXCEPT !.stack = SubSeq(@, 1, Len(@) - 1),
              !.log = Append(@, Event(path, "return", 0))]

\* ret after the running call has finished a step of _layout_block: it goes
\* on to the next step, or returns after the last
Advanced(r) ==
    LET top == r.stack[Len(r.stack)]
    IN  IF top.step = Len(_layout_block_steps)
        THEN Returned(r, top.path)
        ELSE [r EXCEPT !.stack[Len(r.stack)].step = @ + 1]

\* pc once ret has changed: the walk is over when the root's call has returned
WalkPc(r) == IF r.stack = <<>> THEN "walked" ELSE "walking"

\* line 233: root_box._layout(containing_block)
Walk_begin ==
    /\ pc = "idle"
    /\ \E n \in 1..MaxBoxes : \E self \in WalkTrees(n) :
         /\ arg' = [self |-> self, containing_block |-> Viewport]
         /\ ret' = [tree |-> self, stack |-> <<Frame(<<>>)>>, log |-> <<>>]
    /\ pc' = "walking"

\* lines 105-109: a block box goes on to _layout_block, any other returns
Walk_layout ==
    /\ pc = "walking"
    /\ TopStep = "enter"
    /\ \E self \in {GetBox(ret.tree, Top.path)} :
       \E logged \in {[ret EXCEPT !.log = Append(@, Event(Top.path, "layout", 0))]} :
       \E r \in {IF isinstance(self.box_type, "BlockNode")
                 THEN [logged EXCEPT !.stack[Len(ret.stack)].step = 1]
                 ELSE Returned(logged, Top.path)} :
           ret' = r /\ pc' = WalkPc(r)
    /\ arg' = arg

\* line 112
Walk_width ==
    /\ pc = "walking"
    /\ TopStep = "width"
    /\ \E self \in {GetBox(ret.tree, Top.path)}, containing_block \in {TopContainingBlock} :
       \E box \in {_calculate_block_width(self, containing_block)} :
       \E r \in {Advanced([ret EXCEPT !.tree = SetBox(@, Top.path, box),
                                     !.log = Append(@, Event(Top.path, "width", 0))])} :
           ret' = r /\ pc' = WalkPc(r)
    /\ arg' = arg

\* line 113
Walk_position ==
    /\ pc = "walking"
    /\ TopStep = "position"
    /\ \E self \in {GetBox(ret.tree, Top.path)}, containing_block \in {TopContainingBlock} :
       \E box \in {_calculate_block_position(self, containing_block)} :
       \E r \in {Advanced([ret EXCEPT !.tree = SetBox(@, Top.path, box),
                                     !.log = Append(@, Event(Top.path, "position", 0))])} :
           ret' = r /\ pc' = WalkPc(r)
    /\ arg' = arg

\* lines 211-212: the next child's _layout is called
Walk_call_child ==
    /\ pc = "walking"
    /\ TopStep = "children"
    /\ ~Top.called
    /\ Top.i <= Len(GetBox(ret.tree, Top.path).children)
    /\ ret' = [ret EXCEPT !.stack = Append([@ EXCEPT ![Len(@)].called = TRUE],
                                           Frame(Append(Top.path, Top.i))),
                          !.log = Append(@, Event(Top.path, "call", Top.i))]
    /\ pc' = pc
    /\ arg' = arg

\* line 213, once the child's call has returned
Walk_read_child ==
    /\ pc = "walking"
    /\ TopStep = "children"
    /\ Top.called
    /\ \E self \in {GetBox(ret.tree, Top.path)} :
       \E child \in {self.children[Top.i]} :
       \E box \in {[self EXCEPT !.dimensions.content.height =
                                    @ + margin_box(child.dimensions).height]} :
           ret' = [ret EXCEPT !.tree = SetBox(@, Top.path, box),
                              !.stack[Len(ret.stack)].i = @ + 1,
                              !.stack[Len(ret.stack)].called = FALSE,
                              !.log = Append(@, Event(Top.path, "read", Top.i))]
    /\ pc' = pc
    /\ arg' = arg

\* line 211: the loop has run out of children
Walk_children_end ==
    /\ pc = "walking"
    /\ TopStep = "children"
    /\ ~Top.called
    /\ Top.i > Len(GetBox(ret.tree, Top.path).children)
    /\ \E r \in {Advanced([ret EXCEPT
                              !.log = Append(@, Event(Top.path, "children_end", 0))])} :
           ret' = r /\ pc' = WalkPc(r)
    /\ arg' = arg

\* line 115
Walk_height ==
    /\ pc = "walking"
    /\ TopStep = "height"
    /\ \E self \in {GetBox(ret.tree, Top.path)} :
       \E box \in {_calculate_block_height(self)} :
       \E r \in {Advanced([ret EXCEPT !.tree = SetBox(@, Top.path, box),
                                     !.log = Append(@, Event(Top.path, "height", 0))])} :
           ret' = r /\ pc' = WalkPc(r)
    /\ arg' = arg

NextWalk ==
    \/ Walk_begin
    \/ Walk_layout
    \/ Walk_width
    \/ Walk_position
    \/ Walk_call_child
    \/ Walk_read_child
    \/ Walk_children_end
    \/ Walk_height

SpecWalk == Init /\ [][NextWalk]_vars

\* the interpreter runs the next statement of a started call
SpecWalkLive == SpecWalk /\ WF_vars(NextWalk)

-----------------------------------------------------------------------------
(* C21: what the specification says of the walk *)

WalkLog == IF pc \in {"walking", "walked"} THEN ret.log ELSE <<>>

\* where in the log the box at path has run one of the statements evs
LogPositions(path, evs) ==
    {n \in 1..Len(WalkLog) : WalkLog[n].path = path /\ WalkLog[n].ev \in evs}

LogPaths == {WalkLog[n].path : n \in 1..Len(WalkLog)}

\* the place of a statement in the order layout, width, position, children,
\* height, return
StepRank(ev) ==
    CASE ev = "layout" -> 0
      [] ev = "width" -> 1
      [] ev = "position" -> 2
      [] ev \in {"call", "read", "children_end"} -> 3
      [] ev = "height" -> 4
      [] ev = "return" -> 5

IsPrefix(p, q) == Len(p) <= Len(q) /\ SubSeq(q, 1, Len(p)) = p

\* no box has its layout invoked more than once
InvokedAtMostOnce ==
    \A p \in LogPaths : Cardinality(LogPositions(p, {"layout"})) <= 1

\* the statements of one box come in the order width, position, children,
\* height, each of width, position and height once; a block box that has
\* returned has run all of them
StepsInOrder ==
    \A p \in LogPaths :
        /\ \A m, n \in LogPositions(p, {"layout", "width", "position", "call", "read",
                                       "children_end", "height", "return"}) :
               m < n => /\ StepRank(WalkLog[m].ev) <= StepRank(WalkLog[n].ev)
                        /\ StepRank(WalkLog[m].ev) = StepRank(WalkLog[n].ev) =>
                               StepRank(WalkLog[m].ev) = 3
        /\ (LogPositions(p, {"return"}) # {}
            /\ GetBox(ret.tree, p).box_type.cls = "BlockNode") =>
               \A ev \in {"width", "position", "children_end", "height"} :
                   Cardinality(LogPositions(p, {ev})) = 1

\* a parent reads a child's margin-box height only after the child's _layout
\* call has returned, and nothing below the child runs after that
ReadsAfterChildFinished ==
    \A n \in 1..Len(WalkLog) :
        WalkLog[n].ev = "read" =>
            LET child == Append(WalkLog[n].path, WalkLog[n].i)
            IN  \E m \in 1..(n - 1) :
                    /\ WalkLog[m] = Event(child, "return", 0)
                    /\ \A k \in (m + 1)..Len(WalkLog) : ~IsPrefix(child, WalkLog[k].path)

WalkInv == InvokedAtMostOnce /\ StepsInOrder /\ ReadsAfterChildFinished

\* C21: a layout pass is a single terminating tree walk: no box has its
\* layout invoked more than once, each laid-out block box runs its steps in
\* the order width, position, children, height, a parent reads a child's
\* margin-box height only after that child's layout call has finished, and
\* the walk comes to its end.
C21_SinglePassWalk == []WalkInv /\ <>(pc = "walked")

\* a finished walk of a block box with two block children: three boxes laid
\* out, both heights read, and the tree left as _layout leaves it
C21_Witness ==
    /\ pc = "walked"
    /\ Len(arg.self.children) = 2
    /\ Cardinality({p \in LogPaths : LogPositions(p, {"width"}) # {}}) = 3
    /\ LogPositions(<<>>, {"read"}) # {}
    /\ Cardinality(LogPositions(<<>>, {"read"})) = 2
    /\ ret.tree.dimensions.content.height > 0
    /\ ret.tree = _layout(arg.self, arg.containing_block)

====
